---- MODULE Spec2Model ----
(***************************************************************************)
(* ThemeSet (src/highlighting/theme_set.rs): discovery of .tmTheme files   *)
(* under a folder, materialization of one theme from one path, and the     *)
(* fail-fast assembly of the name -> theme map.                            *)
(*                                                                         *)
(* A file name is the sequence of its '.'-separated segments, so           *)
(* <<"a","tmTheme">> is "a.tmTheme", <<"","tmTheme">> is ".tmTheme" and    *)
(* <<"a">> is "a".  A path is the sequence of its components.  The segment *)
(* NonUtf8 stands for bytes that are not valid UTF-8.                      *)
(***************************************************************************)
EXTENDS Naturals, Sequences, FiniteSets, TLC

VARIABLES
    call,       \* the public function that was called
    arg,        \* its argument: the folder, or the path given to get_theme
    tree,       \* what WalkDir::new(arg) yields, in order: entries and errors
    pc,         \* position of the running call
    i,          \* discover_theme_paths: number of walk results consumed
    themes,     \* discover_theme_paths: the local Vec<PathBuf>
    paths,      \* load_from_folder: the discovered paths
    idx,        \* load_from_folder: index in paths of the path in hand
    map,        \* load_from_folder: the local BTreeMap<String, Theme>
    handles,    \* paths with an open File
    settings,   \* Option<Settings>: the parsed document of the path in hand
    theme,      \* Option<Theme>: the validated theme of the path in hand
    result,     \* the value returned by the call
    log         \* history: <<operation, path, succeeded>>, one per operation on a path

vars == <<call, arg, tree, pc, i, themes, paths, idx, map, handles, settings,
          theme, result, log>>

\* Largest number of entries below the root that a walk yields.
MaxKids == 4

NonUtf8 == "\\xFF"

None == <<>>
Some(x) == <<x>>

-----------------------------------------------------------------------------
(* std::path::Path, as used at lines 49 and 77.                            *)

\* Path::file_name: the last component, none when the path ends in "..".
FileName(p) ==
    IF p = <<>> \/ p[Len(p)] = <<"..">> THEN None ELSE Some(p[Len(p)])

\* rsplit_file_at_dot: <<before, after>> around the last '.'.
SplitAtDot(name) ==
    IF Len(name) = 1 THEN <<None, Some(name)>>
    ELSE IF Len(name) = 2 /\ name[1] = "" THEN <<Some(name), None>>
    ELSE <<Some(SubSeq(name, 1, Len(name) - 1)), Some(<<name[Len(name)]>>)>>

\* Path::extension: before.and(after).
Extension(p) ==
    IF FileName(p) = None THEN None
    ELSE LET s == SplitAtDot(FileName(p)[1])
         IN  IF s[1] = None THEN None ELSE s[2]

\* Path::file_stem: before.or(after).
FileStem(p) ==
    IF FileName(p) = None THEN None
    ELSE LET s == SplitAtDot(FileName(p)[1])
         IN  IF s[1] # None THEN s[1] ELSE s[2]

\* OsStr::to_str: the text, when every byte is valid UTF-8.
ToStr(os) ==
    IF \A k \in 1..Len(os) : os[k] # NonUtf8 THEN Some(os) ELSE None


\* Variant of IsThemeExt: the extension compared without regard to case.
IsThemeExtAnyCase(p) ==
    Extension(p) # None /\ Extension(p)[1] \in { <<"tmTheme">>, <<"tmtheme">> }

\* line 49: entry.path().extension().map(|e| e == "tmTheme").unwrap_or(false)
IsThemeExt(p) ==
    Extension(p) # None /\ Extension(p)[1] = <<"tmTheme">>


\* Variant of Basename: file_name in place of file_stem.
BasenameOfFileName(p) ==
    IF FileName(p) = None THEN None ELSE ToStr(FileName(p)[1])

\* line 77: p.file_stem().and_then(|x| x.to_str())
Basename(p) ==
    IF FileStem(p) = None THEN None ELSE ToStr(FileStem(p)[1])

-----------------------------------------------------------------------------
(* Values.                                                                 *)

Pending == [tag |-> "Pending", val |-> <<>>, err |-> [variant |-> "-", cause |-> <<>>]]
Ok(v)   == [tag |-> "Ok", val |-> v, err |-> [variant |-> "-", cause |-> <<>>]]
Err(e)  == [tag |-> "Err", val |-> <<>>, err |-> e]

\* enum ThemeSetError, lines 17-23 and the From impls, lines 25-41.
WalkDirError(e)      == [variant |-> "WalkDir", cause |-> e]
IoError(e)           == [variant |-> "Io", cause |-> e]
ReadSettingsError(e) == [variant |-> "ReadSettings", cause |-> e]
ParseThemeError(e)   == [variant |-> "ParseTheme", cause |-> e]
BadPath              == [variant |-> "BadPath", cause |-> <<>>]

\* What the collaborators produce for the file at path p.
OsError(kind, p)  == <<"io::Error", kind, p>>
ParserDiag(p)     == <<"SettingsError", p>>
ValidatorDiag(p)  == <<"ParseThemeError", p>>
SettingsOf(p)     == <<"Settings", p>>
ThemeOf(s)        == <<"Theme", s[2]>>
WalkFault(p)      == <<"walkdir::Error", p>>

EmptyMap == [k \in {} |-> <<>>]


\* Variant of MapInsert: an entry already present is kept.
MapInsertKeepFirst(m, k, v) ==
    [x \in DOMAIN m \cup {k} |-> IF x \in DOMAIN m THEN m[x] ELSE v]

\* BTreeMap::insert, line 78: a later insert replaces the earlier value.
MapInsert(m, k, v) ==
    [x \in DOMAIN m \cup {k} |-> IF x = k THEN v ELSE m[x]]

-----------------------------------------------------------------------------
(* The filesystem, as the walk over it.                                    *)

WalkOk(p)  == [ok |-> TRUE, path |-> p]
WalkErr(p) == [ok |-> FALSE, path |-> p]

Exists(p) == \E k \in 1..Len(tree) : tree[k].ok /\ tree[k].path = p

\* p is a directory: the walk yields an entry below it.
IsDir(p) ==
    \E k \in 1..Len(tree) :
        /\ Len(tree[k].path) > Len(p)
        /\ SubSeq(tree[k].path, 1, Len(p)) = p

RootNames == { <<"r">>, <<"r", "tmTheme">>, <<"..">> }

\* Paths of entries below the root, relative to it.
KidSuffixes ==
    { << <<"a", "tmTheme">> >>,
      << <<"b", "tmTheme">> >>,
      << <<NonUtf8, "tmTheme">> >>,
      << <<"a", "tmtheme">> >>,
      << <<"", "tmTheme">> >>,
      << <<"sub">> >>,
      << <<"sub">>, <<"a", "tmTheme">> >>,
      << <<"sub">>, <<"a", "txt">> >> }

KidResults ==
    { WalkOk(s) : s \in KidSuffixes } \cup { WalkErr(<< <<"broken">> >>) }

\* A walk yields each entry once, and a directory before what it contains.
WellFormedKids(kids) ==
    /\ \A j, k \in 1..Len(kids) : j # k => kids[j].path # kids[k].path
    /\ \A k \in 1..Len(kids) :
          Len(kids[k].path) = 2 =>
              \E j \in 1..(k - 1) : kids[j] = WalkOk(<< kids[k].path[1] >>)

Under(root, kids) ==
    [k \in 1..Len(kids) |-> [ok |-> kids[k].ok, path |-> <<root>> \o kids[k].path]]

GetThemeArgs ==
    { << <<"r">>, <<"a", "tmTheme">> >>,
      << <<"r">>, <<"a", "txt">> >>,
      << <<"r">>, <<NonUtf8, "tmTheme">> >> }

Cur == IF call = "get_theme" THEN arg ELSE paths[idx]

-----------------------------------------------------------------------------

InitLocals ==
    /\ i = 1
    /\ themes = <<>>
    /\ paths = <<>>
    /\ idx = 0
    /\ map = EmptyMap
    /\ handles = {}
    /\ settings = None
    /\ theme = None
    /\ result = Pending
    /\ log = <<>>

InitFolder ==
    /\ call \in {"load_from_folder", "discover_theme_paths"}
    /\ \E root \in RootNames :
          /\ arg = <<root>>
          /\ \/ tree = <<WalkErr(<<root>>)>>
             \/ \E n \in 0..MaxKids : \E kids \in [1..n -> KidResults] :
                   /\ WellFormedKids(kids)
                   /\ tree = <<WalkOk(<<root>>)>> \o Under(root, kids)
    /\ pc = "discover"

InitGetTheme ==
    /\ call = "get_theme"
    /\ arg \in GetThemeArgs
    /\ tree \in { <<WalkOk(arg)>>, <<WalkErr(arg)>> }
    /\ pc = "read_file"

Init == (InitFolder \/ InitGetTheme) /\ InitLocals

\* One external operation on path p and whether it succeeded.
Event(op, p, ok) == <<op, p, ok>>

-----------------------------------------------------------------------------
(* discover_theme_paths, lines 45-54.  One action per turn of the loop.    *)


\* Variant of DiscoverError: the entry that failed is passed over.
DiscoverErrorIgnored ==
    /\ pc = "discover"
    /\ i <= Len(tree)
    /\ ~tree[i].ok
    /\ i' = i + 1
    /\ UNCHANGED <<call, arg, tree, pc, themes, paths, idx, map, handles,
                   settings, theme, result, log>>

\* line 48: the walk reports an error; try! returns it, the Vec is dropped.
DiscoverError ==
    /\ pc = "discover"
    /\ i <= Len(tree)
    /\ ~tree[i].ok
    /\ result' = Err(WalkDirError(WalkFault(tree[i].path)))
    /\ pc' = "done"
    /\ UNCHANGED <<call, arg, tree, i, themes, paths, idx, map, handles,
                   settings, theme, log>>

\* lines 49-51: the extension matches, the path is pushed.
DiscoverPush ==
    /\ pc = "discover"
    /\ i <= Len(tree)
    /\ tree[i].ok
    /\ IsThemeExt(tree[i].path)
    /\ themes' = Append(themes, tree[i].path)
    /\ i' = i + 1
    /\ UNCHANGED <<call, arg, tree, pc, paths, idx, map, handles, settings,
                   theme, result, log>>

\* line 49: any other entry is passed over.
DiscoverSkip ==
    /\ pc = "discover"
    /\ i <= Len(tree)
    /\ tree[i].ok
    /\ ~IsThemeExt(tree[i].path)
    /\ i' = i + 1
    /\ UNCHANGED <<call, arg, tree, pc, themes, paths, idx, map, handles,
                   settings, theme, result, log>>

\* line 53: Ok(themes), to the caller of discover_theme_paths.
DiscoverReturn ==
    /\ pc = "discover"
    /\ i > Len(tree)
    /\ call = "discover_theme_paths"
    /\ result' = Ok(themes)
    /\ pc' = "done"
    /\ UNCHANGED <<call, arg, tree, i, themes, paths, idx, map, handles,
                   settings, theme, log>>

\* lines 72-73: Ok(themes), to load_from_folder, which starts an empty map.
DiscoverToLoad ==
    /\ pc = "discover"
    /\ i > Len(tree)
    /\ call = "load_from_folder"
    /\ paths' = themes
    /\ map' = EmptyMap
    /\ idx' = 0
    /\ pc' = "loop"
    /\ UNCHANGED <<call, arg, tree, i, themes, handles, settings, theme,
                   result, log>>

-----------------------------------------------------------------------------
(* load_from_folder, lines 71-81.                                          *)


\* Variant of LoopNext: the stem is derived before get_theme is called.
LoopNextStemFirst ==
    /\ pc = "loop"
    /\ idx < Len(paths)
    /\ idx' = idx + 1
    /\ settings' = None
    /\ theme' = None
    /\ IF Basename(paths[idx + 1]) = None
       THEN /\ result' = Err(BadPath)
            /\ log' = Append(log, Event("stem", paths[idx + 1], FALSE))
            /\ pc' = "done"
       ELSE /\ result' = result
            /\ log' = log
            /\ pc' = "read_file"
    /\ UNCHANGED <<call, arg, tree, i, themes, paths, map, handles>>

\* Variant of LoopNext: the iterator is advanced twice.
LoopNextSkipping ==
    /\ pc = "loop"
    /\ idx < Len(paths)
    /\ idx' = IF idx + 2 <= Len(paths) THEN idx + 2 ELSE idx + 1
    /\ settings' = None
    /\ theme' = None
    /\ pc' = "read_file"
    /\ UNCHANGED <<call, arg, tree, i, themes, paths, map, handles, result, log>>

\* lines 74-75: the iterator yields the next path; get_theme is called on it.
LoopNext ==
    /\ pc = "loop"
    /\ idx < Len(paths)
    /\ idx' = idx + 1
    /\ settings' = None
    /\ theme' = None
    /\ pc' = "read_file"
    /\ UNCHANGED <<call, arg, tree, i, themes, paths, map, handles, result, log>>

\* line 80: the iterator is exhausted.
LoopEnd ==
    /\ pc = "loop"
    /\ idx = Len(paths)
    /\ result' = Ok(map)
    /\ pc' = "done"
    /\ UNCHANGED <<call, arg, tree, i, themes, paths, idx, map, handles,
                   settings, theme, log>>

\* lines 76-78: the stem is text; the theme is inserted under it.
FileStemOk ==
    /\ pc = "file_stem"
    /\ Basename(Cur) # None
    /\ map' = MapInsert(map, Basename(Cur)[1], theme[1])
    /\ log' = Append(log, Event("stem", Cur, TRUE))
    /\ pc' = "loop"
    /\ UNCHANGED <<call, arg, tree, i, themes, paths, idx, handles, settings,
                   theme, result>>

\* lines 76-77: no stem, or a stem that is not text: BadPath.
FileStemBad ==
    /\ pc = "file_stem"
    /\ Basename(Cur) = None
    /\ result' = Err(BadPath)
    /\ log' = Append(log, Event("stem", Cur, FALSE))
    /\ pc' = "done"
    /\ UNCHANGED <<call, arg, tree, i, themes, paths, idx, map, handles,
                   settings, theme>>

-----------------------------------------------------------------------------
(* get_theme, lines 56-68: read_file, read_plist, Theme::parse_settings.   *)
(* An error leaves through every enclosing try!, so it is the result of    *)
(* the call whichever public function was called.                          *)

\* line 57: File::open succeeds.
ReadFileOk ==
    /\ pc = "read_file"
    /\ Exists(Cur)
    /\ handles' = handles \cup {Cur}
    /\ log' = Append(log, Event("open", Cur, TRUE))
    /\ pc' = "read_plist"
    /\ UNCHANGED <<call, arg, tree, i, themes, paths, idx, map, settings,
                   theme, result>>


\* Variant of ReadFileFail: the failure is reported as a document-parse error.
ReadFileFailAsParse ==
    /\ pc = "read_file"
    /\ result' = Err(ReadSettingsError(ParserDiag(Cur)))
    /\ log' = Append(log, Event("open", Cur, FALSE))
    /\ pc' = "done"
    /\ UNCHANGED <<call, arg, tree, i, themes, paths, idx, map, handles,
                   settings, theme>>

\* line 57: File::open fails.
ReadFileFail ==
    /\ pc = "read_file"
    /\ result' = Err(IoError(OsError(IF Exists(Cur) THEN "PermissionDenied"
                                                     ELSE "NotFound", Cur)))
    /\ log' = Append(log, Event("open", Cur, FALSE))
    /\ pc' = "done"
    /\ UNCHANGED <<call, arg, tree, i, themes, paths, idx, map, handles,
                   settings, theme>>

\* line 62: the parser consumes the reader and returns the settings.  Reading
\* a directory fails, so only a file parses.
ReadPlistOk ==
    /\ pc = "read_plist"
    /\ ~IsDir(Cur)
    /\ settings' = Some(SettingsOf(Cur))
    /\ handles' = handles \ {Cur}
    /\ log' = Append(log, Event("parse", Cur, TRUE))
    /\ pc' = "parse_settings"
    /\ UNCHANGED <<call, arg, tree, i, themes, paths, idx, map, theme, result>>


\* Variant of ReadPlistFail: the reader is not released on failure.
ReadPlistFailLeak ==
    /\ pc = "read_plist"
    /\ result' = Err(ReadSettingsError(ParserDiag(Cur)))
    /\ log' = Append(log, Event("parse", Cur, FALSE))
    /\ pc' = "done"
    /\ UNCHANGED <<call, arg, tree, i, themes, paths, idx, map, handles,
                   settings, theme>>

\* line 62: the parser consumes the reader and fails.
ReadPlistFail ==
    /\ pc = "read_plist"
    /\ result' = Err(ReadSettingsError(ParserDiag(Cur)))
    /\ handles' = handles \ {Cur}
    /\ log' = Append(log, Event("parse", Cur, FALSE))
    /\ pc' = "done"
    /\ UNCHANGED <<call, arg, tree, i, themes, paths, idx, map, settings, theme>>

\* line 67: the validator returns the theme.
ParseSettingsOk ==
    /\ pc = "parse_settings"
    /\ theme' = Some(ThemeOf(settings[1]))
    /\ log' = Append(log, Event("validate", Cur, TRUE))
    /\ IF call = "get_theme"
       THEN /\ result' = Ok(ThemeOf(settings[1]))
            /\ pc' = "done"
       ELSE /\ result' = result
            /\ pc' = "file_stem"
    /\ UNCHANGED <<call, arg, tree, i, themes, paths, idx, map, handles, settings>>


\* Variant of ParseSettingsFail: a load passes over the theme that failed.
ParseSettingsFailSkipped ==
    /\ pc = "parse_settings"
    /\ log' = Append(log, Event("validate", Cur, FALSE))
    /\ IF call = "get_theme"
       THEN /\ result' = Err(ParseThemeError(ValidatorDiag(Cur)))
            /\ pc' = "done"
       ELSE /\ result' = result
            /\ pc' = "loop"
    /\ UNCHANGED <<call, arg, tree, i, themes, paths, idx, map, handles,
                   settings, theme>>

\* line 67: the validator fails.
ParseSettingsFail ==
    /\ pc = "parse_settings"
    /\ result' = Err(ParseThemeError(ValidatorDiag(Cur)))
    /\ log' = Append(log, Event("validate", Cur, FALSE))
    /\ pc' = "done"
    /\ UNCHANGED <<call, arg, tree, i, themes, paths, idx, map, handles,
                   settings, theme>>

-----------------------------------------------------------------------------

Next ==
    \/ DiscoverError
    \/ DiscoverPush
    \/ DiscoverSkip
    \/ DiscoverReturn
    \/ DiscoverToLoad
    \/ LoopNext
    \/ LoopEnd
    \/ ReadFileOk
    \/ ReadFileFail
    \/ ReadPlistOk
    \/ ReadPlistFail
    \/ ParseSettingsOk
    \/ ParseSettingsFail
    \/ FileStemOk
    \/ FileStemBad

Spec == Init /\ [][Next]_vars

\* The call runs on one thread with blocking I/O: a step that can be taken is.
FairSpec == Spec /\ WF_vars(Next)

-----------------------------------------------------------------------------
(* Readings of the history.                                                *)

Last(s) == s[Len(s)]

\* The paths on which operation op was run, in order.
Ran(op) ==
    LET sel == SelectSeq(log, LAMBDA e : e[1] = op)
    IN  [k \in 1..Len(sel) |-> sel[k][2]]

\* The paths on which operation op succeeded, in order.
Passed(op) ==
    LET sel == SelectSeq(log, LAMBDA e : e[1] = op /\ e[3])
    IN  [k \in 1..Len(sel) |-> sel[k][2]]

Stages == {"open", "parse", "validate"}

\* A stage of get_theme has failed on some path.
StageFailed == \E k \in 1..Len(log) : log[k][1] \in Stages /\ ~log[k][3]

\* The variant and the cause get_theme must report when stage op fails on p.
StageError(op, p, e) ==
    \/ op = "open" /\ e.variant = "Io" /\ e.cause[1] = "io::Error" /\ Last(e.cause) = p
    \/ op = "parse" /\ e.variant = "ReadSettings" /\ e.cause = ParserDiag(p)
    \/ op = "validate" /\ e.variant = "ParseTheme" /\ e.cause = ValidatorDiag(p)

\* The stem of a path that has an extension: its last component without the
\* extension.
StemOf(p) == SubSeq(Last(p), 1, Len(Last(p)) - 1)

IsText(stem) == \A k \in 1..Len(stem) : stem[k] # NonUtf8

Loading == call = "load_from_folder"

-----------------------------------------------------------------------------
\* C1: fail-fast, all-or-nothing load.  Once a stage of get_theme has failed
\* on a path, load_from_folder has returned, the value returned is the error
\* of that stage on that path and holds no catalog, every earlier path went
\* through all stages and its stem, and no later path was touched.
C1_FailFast ==
    (Loading /\ StageFailed) =>
        /\ pc = "done"
        /\ result.tag = "Err"
        /\ result.val = <<>>
        /\ idx \in 1..Len(paths)
        /\ ~Last(log)[3] /\ Last(log)[2] = paths[idx]
        /\ StageError(Last(log)[1], paths[idx], result.err)
        /\ \A k \in 1..(Len(log) - 1) : log[k][3]
        /\ Ran("open") = SubSeq(paths, 1, idx)
        /\ Passed("stem") = SubSeq(paths, 1, idx - 1)

\* C1 witness: the load failed on its second path or later, with entries
\* already built.
C1_Witness ==
    /\ Loading /\ pc = "done" /\ StageFailed
    /\ idx >= 2 /\ idx < Len(paths)
    /\ DOMAIN map # {}

-----------------------------------------------------------------------------
\* C2: a load that returns a catalog returns one whose keys are exactly the
\* stems of the discovered paths, each key holding the theme validated from a
\* discovered path with that stem; and when every discovered path went
\* through all stages and has a textual stem, the load returns a catalog.
C2_CatalogKeys ==
    /\ (Loading /\ pc = "done" /\ result.tag = "Ok") =>
          /\ DOMAIN result.val = { StemOf(paths[k]) : k \in 1..Len(paths) }
          /\ \A key \in DOMAIN result.val :
                \E k \in 1..Len(paths) :
                    /\ StemOf(paths[k]) = key
                    /\ result.val[key] = ThemeOf(SettingsOf(paths[k]))
                    /\ \E n \in 1..Len(log) : log[n] = Event("validate", paths[k], TRUE)
    /\ (/\ Loading /\ pc = "done"
        /\ \A k \in 1..Len(tree) : tree[k].ok
        /\ ~StageFailed
        /\ \A k \in 1..Len(paths) : IsText(StemOf(paths[k]))) =>
          result.tag = "Ok"

\* C2 witness: a catalog of two themes is returned.
C2_Witness ==
    /\ Loading /\ pc = "done" /\ result.tag = "Ok"
    /\ Cardinality(DOMAIN result.val) >= 2

-----------------------------------------------------------------------------
\* C3: get_theme runs open, parse, validate in that order and stops at the
\* first stage that fails; the error is Io, ReadSettings with the parser's
\* diagnostic, or ParseTheme with the validator's diagnostic, for the stage
\* that failed; a path that does not exist gives Io; a Theme is returned only
\* when the three stages succeeded.
StageOrder == <<"open", "parse", "validate">>

C3_StagesInOrder ==
    call = "get_theme" =>
        /\ Len(log) <= 3
        /\ \A k \in 1..Len(log) : log[k][1] = StageOrder[k] /\ log[k][2] = arg
        /\ \A k \in 1..(Len(log) - 1) : log[k][3]
        /\ pc = "done" =>
              /\ log # <<>>
              /\ ~Last(log)[3] =>
                    /\ result.tag = "Err"
                    /\ StageError(StageOrder[Len(log)], arg, result.err)
              /\ Last(log)[3] =>
                    /\ Len(log) = 3
                    /\ result = Ok(ThemeOf(SettingsOf(arg)))
              /\ ~Exists(arg) => result.tag = "Err" /\ result.err.variant = "Io"
        /\ result.tag = "Ok" => Len(log) = 3 /\ \A k \in 1..3 : log[k][3]

\* C3 witness: the parser failed on a file that opened.
C3_Witness ==
    /\ call = "get_theme" /\ pc = "done"
    /\ Len(log) = 2 /\ ~Last(log)[3]
    /\ result.err.variant = "ReadSettings"

-----------------------------------------------------------------------------
\* C4 as stated: load_from_folder derives the identifier of a path before it
\* materializes it, so no stage of get_theme runs on a path whose stem is
\* not text, and a load stopped at such a path returns BadPath.
C4_StemBeforeMaterialize ==
    Loading =>
        /\ \A k \in 1..Len(log) :
              log[k][1] \in Stages => IsText(StemOf(log[k][2]))
        /\ (pc = "done" /\ idx >= 1 /\ ~IsText(StemOf(paths[idx]))) =>
              result.err.variant = "BadPath"

\* C4 amended: load_from_folder materializes a path before it derives the
\* identifier.  The stem of a path is looked at only right after the three
\* stages succeeded on that path; BadPath is returned only for a path whose
\* stem is not text and whose file was opened, parsed and validated; and when
\* a stage fails on such a path the load returns the error of that stage.
C4_MaterializeBeforeStem ==
    Loading =>
        /\ \A k \in 1..Len(log) :
              log[k][1] = "stem" =>
                  /\ k >= 4
                  /\ \A j \in 1..3 :
                        log[k - 4 + j] = Event(StageOrder[j], log[k][2], TRUE)
        /\ (result.tag = "Err" /\ result.err.variant = "BadPath") =>
              /\ pc = "done" /\ idx \in 1..Len(paths)
              /\ ~IsText(StemOf(paths[idx]))
              /\ Last(log) = Event("stem", paths[idx], FALSE)
              /\ \A op \in Stages : Last(Passed(op)) = paths[idx]
        /\ (/\ pc = "done" /\ idx >= 1 /\ ~IsText(StemOf(paths[idx]))
            /\ Last(log)[1] \in Stages) =>
              /\ ~Last(log)[3]
              /\ StageError(Last(log)[1], paths[idx], result.err)

\* C4 witness: BadPath returned for a path whose file was opened, parsed and
\* validated.
C4_Witness ==
    /\ Loading /\ pc = "done" /\ idx >= 1
    /\ result.tag = "Err" /\ result.err.variant = "BadPath"
    /\ Event("open", paths[idx], TRUE) \in { log[k] : k \in 1..Len(log) }

-----------------------------------------------------------------------------
\* C5: the BadPath error returned by load_from_folder names the offending
\* path: the path can be read from the error value.
C5_BadPathNamesPath ==
    (Loading /\ result.tag = "Err" /\ result.err.variant = "BadPath") =>
        /\ result.err.cause # <<>>
        /\ Last(result.err.cause) = paths[idx]

-----------------------------------------------------------------------------
\* C6: when discovered paths share a stem and every path goes through, the
\* load returns a catalog in which each stem has one entry, the theme of the
\* last discovered path with that stem.
SharedStem ==
    \E j, k \in 1..Len(paths) : j < k /\ StemOf(paths[j]) = StemOf(paths[k])

LastWith(stem) ==
    CHOOSE k \in 1..Len(paths) :
        /\ StemOf(paths[k]) = stem
        /\ \A j \in (k + 1)..Len(paths) : StemOf(paths[j]) # stem

-----------------------------------------------------------------------------
\* C7: when the walk reports no error, discover_theme_paths returns the
\* entries of the walk, the root included and at any depth, whose extension
\* is exactly "tmTheme": each of them once, and nothing else.
Matching == { k \in 1..Len(tree) : tree[k].ok /\ Extension(tree[k].path) = Some(<<"tmTheme">>) }

C7_ExtensionExact ==
    (call = "discover_theme_paths" /\ pc = "done" /\ \A k \in 1..Len(tree) : tree[k].ok) =>
        /\ result.tag = "Ok"
        /\ \A k \in Matching :
              Cardinality({ n \in 1..Len(result.val) : result.val[n] = tree[k].path }) = 1
        /\ \A n \in 1..Len(result.val) :
              \E k \in Matching : tree[k].path = result.val[n]

\* C7 witness: a matching root, a matching nested entry and entries with
\* another extension or none.
C7_Witness ==
    /\ call = "discover_theme_paths" /\ pc = "done" /\ result.tag = "Ok"
    /\ \E n \in 1..Len(result.val) : Len(result.val[n]) = 1
    /\ \E n \in 1..Len(result.val) : Len(result.val[n]) = 3
    /\ Len(result.val) < Len(tree)

-----------------------------------------------------------------------------
\* C8: when the walk reports an error, discover_theme_paths returns the
\* WalkDir error of the first one and no list, whatever it had collected;
\* load_from_folder returns the same error, and no file has been opened.
\* Discovery is finished before the first path is materialized.
FirstFault == CHOOSE k \in 1..Len(tree) : ~tree[k].ok /\ \A j \in 1..(k - 1) : tree[j].ok

C8_WalkErrorAborts ==
    call \in {"discover_theme_paths", "load_from_folder"} =>
        /\ (pc = "done" /\ \E k \in 1..Len(tree) : ~tree[k].ok) =>
              /\ result = Err(WalkDirError(WalkFault(tree[FirstFault].path)))
              /\ result.val = <<>>
              /\ log = <<>>
        /\ (\E k \in 1..Len(tree) : ~tree[k].ok) => log = <<>> /\ handles = {}
        /\ log # <<>> => i > Len(tree)

\* C8 witness: the walk failed after matching paths had been collected.
C8_Witness ==
    /\ Loading /\ pc = "done"
    /\ result.tag = "Err" /\ result.err.variant = "WalkDir"
    /\ themes # <<>>

-----------------------------------------------------------------------------
\* C9: at most one file is open at any time; a file is open only while the
\* parser runs on it; none is open between paths or when the call returns.
C9_HandleDiscipline ==
    /\ Cardinality(handles) <= 1
    /\ pc = "read_plist" => handles = {Cur}
    /\ pc # "read_plist" => handles = {}

\* C9 witness: the second path of a load is being parsed; C9 also covers the
\* return after a failed parse.
C9_Witness ==
    /\ Loading /\ pc = "read_plist" /\ idx = 2 /\ handles = {paths[2]}

-----------------------------------------------------------------------------
\* C10: load_from_folder runs each stage at most once per path, takes the
\* paths in the order of discovery without skipping any, has run every stage
\* once on every path when it returns a catalog, and returns.
C10_Safety ==
    Loading =>
        /\ \A op \in Stages \cup {"stem"} :
              \E n \in 0..Len(paths) : Ran(op) = SubSeq(paths, 1, n)
        /\ Ran("open") = SubSeq(paths, 1, IF pc = "read_file" THEN idx - 1 ELSE idx)
        /\ (pc = "done" /\ result.tag = "Ok") =>
              \A op \in Stages \cup {"stem"} : Passed(op) = paths

C10_OncePerPathAndTerminates == []C10_Safety /\ <>(pc = "done")

\* C10 witness: a catalog returned after three paths.
C10_Witness ==
    /\ Loading /\ pc = "done" /\ result.tag = "Ok" /\ Len(paths) >= 3

====
